---- MODULE Spec2Model ----
(***************************************************************************)
(* Model of the image-resource cache of rise-ui/resources:                 *)
(*   src/src/images.rs  ImageLoader, prepare_image, is_image_opaque,       *)
(*                      premultiply                                        *)
(*   src/src/lib.rs     Resources, init_resources, resources (the          *)
(*                      process-wide Mutex around the loader)              *)
(*                                                                         *)
(* Spec      the registry: get_image, load_image, update_texture and       *)
(*           init_resources called through the global lock, each call one  *)
(*           atomic step (the lock is held for the whole call).            *)
(* SpecTex   the same with several texture ids and descriptors.            *)
(* SpecPath  the same with asset paths that start with a separator.        *)
(* SpecLock  threads calling through RES.try_lock(), a call being several  *)
(*           steps taken while the thread owns the guard.                  *)
(* SpecConv  the pixel converter: prepare_image applied to one decoded     *)
(*           image drawn from ConvInputs.                                  *)
(***************************************************************************)
EXTENDS Integers, Sequences, FiniteSets, TLC

VARIABLES
  render,               \* ImageLoader.render : Option<RenderApi>
  assets_path,          \* ImageLoader.assets_path : PathBuf
  bundled_images,       \* ImageLoader.bundled_images (never written)
  images,               \* ImageLoader.images : ImageSource -> ImageInfo
  texture_descriptors,  \* ImageLoader.texture_descriptors : u64 -> descriptor
  poisoned,             \* RES: a call panicked while it held the Mutex
  cmds,                 \* environment: resource updates the renderer received
  namespaces,           \* environment: RenderApis created by the backend
  last,                 \* history: the latest registry call and its outcome
  loaded,               \* history: names whose load_image has succeeded
  holders,              \* RES: the threads that own a MutexGuard
  tpc,                  \* SpecLock: where each thread is in its call
  tjob,                 \* SpecLock: the locals of the call a thread is in
  cpc,                  \* SpecConv: "input" | "done" ("off" under Spec)
  cimg,                 \* SpecConv: the decoded image handed to prepare_image
  cout                  \* SpecConv: what prepare_image returned

vars == <<render, assets_path, bundled_images, images, texture_descriptors,
          poisoned, cmds, namespaces, last, loaded, holders, tpc, tjob,
          cpc, cimg, cout>>

registry == <<render, assets_path, bundled_images, images, texture_descriptors,
              poisoned, cmds, namespaces, last, loaded, holders, tpc, tjob>>

----------------------------------------------------------------------------
(* Bounds of the model *)

\* calls of one behaviour that reach the renderer or replace it: resource
\* updates submitted (add-image and update-image) plus init_resources calls
MaxOps == 4
\* pixels of the multi-pixel images handed to the pixel converter
MaxPixels == 3
\* threads that use the global registry
MaxThreads == 2

----------------------------------------------------------------------------
(* Decoded images (image::DynamicImage) and their bytes *)

\* `x as u8`
u8(x) == x % 256

\* a decoded image: colour layout, dimensions, raw_pixels()
DynImage(layout, w, h, raw) ==
  [layout |-> layout, width |-> w, height |-> h, raw |-> raw]

\* ImageDescriptor::new(width, height, format, is_opaque, allow_mipmaps)
ImageDescriptor(w, h, format, opaque, mipmaps) ==
  [width |-> w, height |-> h, format |-> format, is_opaque |-> opaque,
   allow_mipmaps |-> mipmaps]

NoDescriptor == ImageDescriptor(0, 0, "none", FALSE, FALSE)

----------------------------------------------------------------------------
(* The pixel converter *)

\* one iteration of the loop of premultiply: pixel is a 4-byte chunk
premultiply_chunk_alpha(pixel) ==
  LET a == pixel[4]
      r == pixel[3]
      g == pixel[2]
      b == pixel[1]
  IN  <<u8((b * a + 128) \div 255), u8((g * a + 128) \div 255),
        u8((r * a + 128) \div 255), u8((a * a + 128) \div 255)>>

premultiply_chunk_254(pixel) ==
  LET a == pixel[4]
      r == pixel[3]
      g == pixel[2]
      b == pixel[1]
  IN  <<u8((b * a + 128) \div 254), u8((g * a + 128) \div 254),
        u8((r * a + 128) \div 254), u8(a)>>

premultiply_chunk(pixel) ==
  LET a == pixel[4]
      r == pixel[3]
      g == pixel[2]
      b == pixel[1]
  IN  <<u8((b * a + 128) \div 255), u8((g * a + 128) \div 255),
        u8((r * a + 128) \div 255), u8(a)>>

\* premultiply(data): data.chunks_mut(4), each chunk rewritten in place
RECURSIVE premultiply(_)
premultiply(data) ==
  IF Len(data) = 0 THEN <<>>
  ELSE premultiply_chunk(SubSeq(data, 1, 4))
         \o premultiply(SubSeq(data, 5, Len(data)))

\* the scan of is_image_opaque for BGRA8, from pixel i (0-based) on
RECURSIVE opaque_scan(_, _)
opaque_scan(bytes, i) ==
  IF i >= Len(bytes) \div 4 THEN TRUE
  ELSE IF bytes[i * 4 + 3 + 1] # 255 THEN FALSE
  ELSE opaque_scan(bytes, i + 1)

is_image_opaque_first(format, bytes) ==
  CASE format = "BGRA8" -> (Len(bytes) \div 4 = 0) \/ bytes[4] = 255
    [] format = "R8" -> TRUE

is_image_opaque(format, bytes) ==
  CASE format = "BGRA8" -> opaque_scan(bytes, 0)
    [] format = "R8" -> TRUE

\* raw_pixels() and the premultiply of prepare_image: the bytes handed to
\* ImageData::new
upload_bytes(format, raw) ==
  IF format = "BGRA8" THEN premultiply(raw) ELSE raw

ConvErr(e) == [ok |-> FALSE, err |-> e, data |-> <<>>, descriptor |-> NoDescriptor]

prepare_image(image) ==
  IF image.layout \notin {"ImageRgba8", "ImageLuma8"}
  THEN ConvErr("ImageFormat unsupported")
  ELSE LET format == IF image.layout = "ImageRgba8" THEN "BGRA8" ELSE "R8"
           bytes == upload_bytes(format, image.raw)
           opaque == is_image_opaque(format, bytes)
       IN  [ok |-> TRUE, err |-> "",
            data |-> bytes,
            descriptor |->
              ImageDescriptor(image.width, image.height, format, opaque, FALSE)]

----------------------------------------------------------------------------
(* Inputs of the pixel converter *)

\* every value of a u8
Byte == 0..255

\* byte values of the one-pixel inputs whose channels differ
ByteSamples == {0, 1, 50, 100, 128, 200, 255}

\* pixels of the longer inputs, as (R, G, B, A)
PixelSamples ==
  {<<200, 100, 50, 128>>, <<255, 0, 7, 255>>, <<9, 9, 9, 0>>, <<1, 2, 3, 255>>}

RECURSIVE Flatten(_)
Flatten(pixels) ==
  IF Len(pixels) = 0 THEN <<>> ELSE Head(pixels) \o Flatten(Tail(pixels))

ConvInputs ==
     {DynImage("ImageRgba8", 1, 1, <<r, g, b, a>>) :
        r \in ByteSamples, g \in ByteSamples, b \in ByteSamples, a \in ByteSamples}
  \cup {DynImage("ImageRgba8", 1, 1, <<c, c, c, a>>) : c \in Byte, a \in Byte}
  \cup UNION {{DynImage("ImageRgba8", n, 1, Flatten(px)) :
                 px \in [1..n -> PixelSamples]} : n \in 2..MaxPixels}
  \cup {DynImage("ImageRgba8", 0, 0, <<>>)}
  \cup UNION {{DynImage("ImageLuma8", n, 1, px) :
                 px \in [1..n -> {0, 77, 255}]} : n \in 1..MaxPixels}
  \cup {DynImage("ImageRgb8", 1, 1, <<r, 100, b>>) : r \in {0, 255}, b \in {0, 255}}
  \cup {DynImage("ImageLumaA8", 1, 1, <<l, a>>) : l \in {0, 255}, a \in {0, 255}}

NullImage == DynImage("none", 0, 0, <<>>)

----------------------------------------------------------------------------
(* Paths and image sources *)

\* a PathBuf is its sequence of components; an absolute one starts with "/"
is_absolute(p) == Len(p) > 0 /\ p[1] = "/"

\* PathBuf::push: an absolute argument replaces the path
push(base, p) == IF is_absolute(p) THEN p ELSE base \o p

AbsolutePath(p) == [kind |-> "AbsolutePath", path |-> p, name |-> ""]
AssetPath(p) == [kind |-> "AssetPath", path |-> p, name |-> ""]
Bundled(n) == [kind |-> "Bundled", path |-> <<>>, name |-> n]

NoSource == [kind |-> "none", path |-> <<>>, name |-> ""]

AbsPaths == {<<"/", "assets", "foo.png">>}
RelPaths == {<<"foo.png">>}
Names == {"x", "y"}
AssetRoots == {<<>>, <<"/", "assets">>}

Sources ==
  {AbsolutePath(p) : p \in AbsPaths} \cup {AssetPath(p) : p \in RelPaths}
    \cup {Bundled(n) : n \in Names}

----------------------------------------------------------------------------
(* Files and raw image data: what the decoder makes of them *)

NoFile == [exists |-> FALSE, decodable |-> FALSE, image |-> NullImage]
Corrupt == [exists |-> TRUE, decodable |-> FALSE, image |-> NullImage]
Encoded(image) == [exists |-> TRUE, decodable |-> TRUE, image |-> image]

SampleImages ==
  {DynImage("ImageRgba8", 1, 1, <<200, 100, 50, 128>>),
   DynImage("ImageRgb8", 1, 1, <<200, 100, 50>>)}

\* byte strings a caller can pass to load_image or a file can hold
Blobs == {Corrupt} \cup {Encoded(i) : i \in SampleImages}

\* what the filesystem can hold at a path when a call opens it
Files == Blobs \cup {NoFile}

\* the same, for get_image(source): only an uncached path source opens a file
FilesFor(source, cached) ==
  IF source.kind \in {"AbsolutePath", "AssetPath"} /\ source \notin cached
  THEN Files ELSE {NoFile}

DecodeErr(kind, path) ==
  [ok |-> FALSE, err |-> kind, path |-> path, image |-> NullImage]

\* image::load_from_memory
load_from_memory(data) ==
  IF data.decodable
  THEN [ok |-> TRUE, err |-> "", path |-> <<>>, image |-> data.image]
  ELSE DecodeErr("ImageError", <<>>)

\* image::open(path), the filesystem holding `file` at path
image_open(path, file) ==
  IF file.exists
  THEN [load_from_memory(file) EXCEPT !.path = path]
  ELSE DecodeErr("IoError", path)

----------------------------------------------------------------------------
(* The renderer gateway (webrender's RenderApi) *)

None == [some |-> FALSE, ns |-> 0, next_id |-> 0]
Some(ns) == [some |-> TRUE, ns |-> ns, next_id |-> 1]

NoKey == <<0, 0>>

\* RenderApi::generate_image_key: ImageKey(namespace, next id of this api)
generate_image_key(api) == <<api.ns, api.next_id>>

AddImage(key, descriptor, data) ==
  [kind |-> "AddImage", key |-> key, descriptor |-> descriptor, data |-> data,
   external |-> 0, tiling |-> "None", dirty_rect |-> "None"]

UpdateImage(key, descriptor, texture_id) ==
  [kind |-> "UpdateImage", key |-> key, descriptor |-> descriptor, data |-> <<>>,
   external |-> texture_id, tiling |-> "None", dirty_rect |-> "None"]

ImageInfo(key, descriptor) == [key |-> key, descriptor |-> descriptor]
NoInfo == ImageInfo(NoKey, NoDescriptor)

\* HashMap::insert
Insert(map, k, v) == [x \in DOMAIN map \cup {k} |-> IF x = k THEN v ELSE map[x]]

Adds(log) == {i \in DOMAIN log : log[i].kind = "AddImage"}

\* the calls counted against MaxOps, the renderer having received log
Ops(log, inits) == Len(log) + inits

----------------------------------------------------------------------------
(* ImageLoader: what one call does to the loader and to the renderer.        *)
(* An outcome holds the call's result and the fields the call leaves behind. *)

NoErr == [context |-> "", kind |-> "", name |-> "", path |-> <<>>]
Error(kind, name, path) == [context |-> "", kind |-> kind, name |-> name, path |-> path]

Outcome(result, err, key, imgs, log, api, opened, decoded) ==
  [result |-> result, err |-> err, key |-> key, images |-> imgs, cmds |-> log,
   render |-> api, opened |-> opened, decoded |-> decoded]

\* render_api(): api.unwrap() panics on None
render_api_panics == ~render.some

\* create_image_resource: a fresh key, one AddImage update, the new ImageInfo
create_image_resource_reuse(data, descriptor) ==
  IF render_api_panics
  THEN [panicked |-> TRUE, info |-> NoInfo, cmds |-> cmds, render |-> render]
  ELSE LET key == <<render.ns, 1>>
       IN  [panicked |-> FALSE,
            info |-> ImageInfo(key, descriptor),
            cmds |-> Append(cmds, AddImage(key, descriptor, data)),
            render |-> [render EXCEPT !.next_id = @ + 1]]

create_image_resource(data, descriptor) ==
  IF render_api_panics
  THEN [panicked |-> TRUE, info |-> NoInfo, cmds |-> cmds, render |-> render]
  ELSE LET key == generate_image_key(render)
       IN  [panicked |-> FALSE,
            info |-> ImageInfo(key, descriptor),
            cmds |-> Append(cmds, AddImage(key, descriptor, data)),
            render |-> [render EXCEPT !.next_id = @ + 1]]

\* put_image: register, insert under source, return the cached reference
put_image_no_upload(source, data, descriptor, opened) ==
  LET r == create_image_resource(data, descriptor)
  IN  IF r.panicked
      THEN Outcome("panic", NoErr, NoKey, images, cmds, render, opened, TRUE)
      ELSE Outcome("ok", NoErr, r.info.key, Insert(images, source, r.info),
                   cmds, r.render, opened, TRUE)

put_image(source, data, descriptor, opened) ==
  LET r == create_image_resource(data, descriptor)
  IN  IF r.panicked
      THEN Outcome("panic", NoErr, NoKey, images, cmds, render, opened, TRUE)
      ELSE Outcome("ok", NoErr, r.info.key, Insert(images, source, r.info),
                   r.cmds, r.render, opened, TRUE)

\* the two path arms of get_image_internal: prepare_image(image::open(&path)?)?
open_and_put_placeholder(source, path, file) ==
  LET img == image_open(path, file)
      conv == prepare_image(img.image)
  IN  IF ~img.ok
      THEN Outcome("err", Error(img.err, "", path), NoKey, images, cmds, render,
                   {path}, FALSE)
      ELSE IF ~conv.ok
      THEN Outcome("err", Error(conv.err, "", path), NoKey,
                   Insert(images, source, NoInfo), cmds, render, {path}, TRUE)
      ELSE put_image(source, conv.data, conv.descriptor, {path})

open_and_put(source, path, file) ==
  LET img == image_open(path, file)
      conv == prepare_image(img.image)
  IN  IF ~img.ok
      THEN Outcome("err", Error(img.err, "", path), NoKey, images, cmds, render,
                   {path}, FALSE)
      ELSE IF ~conv.ok
      THEN Outcome("err", Error(conv.err, "", path), NoKey, images, cmds, render,
                   {path}, TRUE)
      ELSE put_image(source, conv.data, conv.descriptor, {path})

get_image_internal_nocache(source, file) ==
  CASE source.kind = "AbsolutePath" -> open_and_put(source, source.path, file)
    [] source.kind = "AssetPath" ->
         open_and_put(source, push(assets_path, source.path), file)
    [] source.kind = "Bundled" ->
         IF source \in DOMAIN images
         THEN Outcome("ok", NoErr, images[source].key, images, cmds, render, {}, FALSE)
         ELSE Outcome("err", Error("BundledImageMissingError", source.name, <<>>),
                      NoKey, images, cmds, render, {}, FALSE)

get_image_internal_bundled_file(source, file) ==
  IF source \in DOMAIN images
  THEN Outcome("ok", NoErr, images[source].key, images, cmds, render, {}, FALSE)
  ELSE CASE source.kind = "AbsolutePath" -> open_and_put(source, source.path, file)
         [] source.kind = "AssetPath" ->
              open_and_put(source, push(assets_path, source.path), file)
         [] source.kind = "Bundled" ->
              open_and_put(source, push(assets_path, <<source.name>>), file)

get_image_internal(source, file) ==
  IF source \in DOMAIN images
  THEN Outcome("ok", NoErr, images[source].key, images, cmds, render, {}, FALSE)
  ELSE CASE source.kind = "AbsolutePath" -> open_and_put(source, source.path, file)
         [] source.kind = "AssetPath" ->
              open_and_put(source, push(assets_path, source.path), file)
         [] source.kind = "Bundled" ->
              Outcome("err", Error("BundledImageMissingError", source.name, <<>>),
                      NoKey, images, cmds, render, {}, FALSE)

\* get_image: the error of get_image_internal, wrapped with the source
get_image(source, file) ==
  LET image == get_image_internal(source, file)
  IN  IF image.result = "err"
      THEN [image EXCEPT !.err.context = "Failed to load image from source"]
      ELSE image

load_image_internal_upload_first(name, data) ==
  LET img == load_from_memory(data)
      conv == prepare_image(img.image)
      r == create_image_resource(IF conv.ok THEN conv.data ELSE img.image.raw,
                                 conv.descriptor)
  IN  IF ~img.ok
      THEN Outcome("err", Error(img.err, name, <<>>), NoKey, images, cmds, render,
                   {}, FALSE)
      ELSE IF r.panicked
      THEN Outcome("panic", NoErr, NoKey, images, cmds, render, {}, TRUE)
      ELSE IF ~conv.ok
      THEN Outcome("err", Error(conv.err, name, <<>>), NoKey, images, r.cmds,
                   r.render, {}, TRUE)
      ELSE Outcome("ok", NoErr, r.info.key, Insert(images, Bundled(name), r.info),
                   r.cmds, r.render, {}, TRUE)

load_image_internal_keep_old(name, data) ==
  LET img == load_from_memory(data)
      conv == prepare_image(img.image)
      r == create_image_resource(conv.data, conv.descriptor)
  IN  IF ~img.ok
      THEN Outcome("err", Error(img.err, name, <<>>), NoKey, images, cmds, render,
                   {}, FALSE)
      ELSE IF ~conv.ok
      THEN Outcome("err", Error(conv.err, name, <<>>), NoKey, images, cmds, render,
                   {}, TRUE)
      ELSE IF r.panicked
      THEN Outcome("panic", NoErr, NoKey, images, cmds, render, {}, TRUE)
      ELSE Outcome("ok", NoErr, r.info.key,
                   IF Bundled(name) \in DOMAIN images THEN images
                   ELSE Insert(images, Bundled(name), r.info),
                   r.cmds, r.render, {}, TRUE)

load_image_internal(name, data) ==
  LET img == load_from_memory(data)
      conv == prepare_image(img.image)
      r == create_image_resource(conv.data, conv.descriptor)
  IN  IF ~img.ok
      THEN Outcome("err", Error(img.err, name, <<>>), NoKey, images, cmds, render,
                   {}, FALSE)
      ELSE IF ~conv.ok
      THEN Outcome("err", Error(conv.err, name, <<>>), NoKey, images, cmds, render,
                   {}, TRUE)
      ELSE IF r.panicked
      THEN Outcome("panic", NoErr, NoKey, images, cmds, render, {}, TRUE)
      ELSE Outcome("ok", NoErr, r.info.key, Insert(images, Bundled(name), r.info),
                   r.cmds, r.render, {}, TRUE)

\* load_image: the error of load_image_internal, wrapped
load_image(name, data) ==
  LET r == load_image_internal(name, data)
  IN  IF r.result = "err"
      THEN [r EXCEPT !.err.context = "Failed to load image from raw data"]
      ELSE r

\* update_texture: one UpdateImage update, then the descriptor recorded under
\* the id of the external data
update_texture_recache(key, descriptor, texture_id) ==
  IF render_api_panics
  THEN [panicked |-> TRUE, images |-> images, cmds |-> cmds,
        texture_descriptors |-> texture_descriptors]
  ELSE [panicked |-> FALSE,
        images |-> [s \in DOMAIN images |->
                      IF images[s].key = key THEN ImageInfo(key, descriptor)
                      ELSE images[s]],
        cmds |-> Append(cmds, UpdateImage(key, descriptor, texture_id)),
        texture_descriptors |-> Insert(texture_descriptors, texture_id, descriptor)]

update_texture_record_first(key, descriptor, texture_id) ==
  IF render_api_panics
  THEN [panicked |-> TRUE, images |-> images, cmds |-> cmds,
        texture_descriptors |-> Insert(texture_descriptors, texture_id, descriptor)]
  ELSE [panicked |-> FALSE,
        images |-> images,
        cmds |-> Append(cmds, UpdateImage(key, descriptor, texture_id)),
        texture_descriptors |-> Insert(texture_descriptors, texture_id, descriptor)]

update_texture_keep_first(key, descriptor, texture_id) ==
  IF render_api_panics
  THEN [panicked |-> TRUE, images |-> images, cmds |-> cmds,
        texture_descriptors |-> texture_descriptors]
  ELSE [panicked |-> FALSE,
        images |-> images,
        cmds |-> Append(cmds, UpdateImage(key, descriptor, texture_id)),
        texture_descriptors |->
          IF texture_id \in DOMAIN texture_descriptors THEN texture_descriptors
          ELSE Insert(texture_descriptors, texture_id, descriptor)]

update_texture(key, descriptor, texture_id) ==
  IF render_api_panics
  THEN [panicked |-> TRUE, images |-> images, cmds |-> cmds,
        texture_descriptors |-> texture_descriptors]
  ELSE [panicked |-> FALSE,
        images |-> images,
        cmds |-> Append(cmds, UpdateImage(key, descriptor, texture_id)),
        texture_descriptors |-> Insert(texture_descriptors, texture_id, descriptor)]

\* Resources::set_render_api: render = Some(render.create_api())
set_render_api(ns) == Some(ns)

----------------------------------------------------------------------------
(* The calls, as the steps of the registry *)

NoBefore == [op |-> "none", result |-> "none", key |-> NoKey, hit |-> FALSE]

\* the descriptor and the external-data id handed to update_texture
Given(descriptor, texture_id) == [descriptor |-> descriptor, id |-> texture_id]
NoGiven == Given(NoDescriptor, 0)

NoCall ==
  [op |-> "none", source |-> NoSource, name |-> "", data |-> NoFile,
   result |-> "none", err |-> NoErr, key |-> NoKey, hit |-> FALSE,
   opened |-> {}, decoded |-> FALSE, keys |-> 0, submitted |-> <<>>,
   cache_changed |-> FALSE, given |-> NoGiven, table_changed |-> FALSE,
   before |-> NoBefore]

\* The record of a call.
\*   op, source, name   the call and the source it is about
\*   data               the bytes given to load_image, or what the file that a
\*                      get_image opened held
\*   result, err, key   "ok" | "err" | "panic"; the error; the handle returned
\*                      (get_image, update_texture: given) or registered
\*   hit                the source was cached when the call began
\*   opened, decoded    paths opened; whether the decoder ran
\*   keys, submitted    image keys generated; resource updates sent
\*   cache_changed      the call left images different
\*   given              update_texture: the descriptor and texture id passed
\*   table_changed      the call left texture_descriptors different
\*   before             the call right before, when about the same source
Call(op, source, name, data, o) ==
  [op |-> op, source |-> source, name |-> name,
   data |-> IF op = "get_image" /\ o.opened = {} THEN NoFile ELSE data,
   result |-> o.result,
   err |-> o.err, key |-> o.key, hit |-> (source \in DOMAIN images),
   opened |-> o.opened, decoded |-> o.decoded,
   keys |-> o.render.next_id - render.next_id,
   submitted |-> SubSeq(o.cmds, Len(cmds) + 1, Len(o.cmds)),
   cache_changed |-> (o.images # images),
   given |-> NoGiven, table_changed |-> FALSE,
   before |-> IF last.source = source /\ source # NoSource
              THEN [op |-> last.op, result |-> last.result, key |-> last.key,
                    hit |-> last.hit]
              ELSE NoBefore]

\* resources(): RES.try_lock().unwrap() panics on a poisoned lock
resources_ok == ~poisoned

\* a panic unwinds through the MutexGuard and poisons RES
Finish(op, source, name, data, o) ==
  /\ images' = o.images
  /\ cmds' = o.cmds
  /\ render' = o.render
  /\ poisoned' = (o.result = "panic")
  /\ last' = Call(op, source, name, data, o)
  /\ loaded' = IF op = "load_image" /\ o.result = "ok"
               THEN loaded \cup {name} ELSE loaded
  /\ UNCHANGED <<assets_path, bundled_images, texture_descriptors, namespaces,
                 holders, tpc, tjob, cpc, cimg, cout>>

GetImage(source, file) ==
  /\ resources_ok
  /\ \E o \in {get_image(source, file)} :
       /\ Ops(o.cmds, namespaces) <= MaxOps
       /\ Finish("get_image", source, "", file, o)

LoadImage(name, data) ==
  /\ resources_ok
  /\ \E o \in {load_image(name, data)} :
       /\ Ops(o.cmds, namespaces) <= MaxOps
       /\ Finish("load_image", Bundled(name), name, data, o)

TextureIds == {1}
TextureDescs == {ImageDescriptor(2, 2, "BGRA8", TRUE, FALSE)}
\* a key the caller got elsewhere for a streamed texture
StreamKey == <<0, 1>>

UpdateTexture(key, descriptor, texture_id) ==
  /\ resources_ok
  /\ \E r \in {update_texture(key, descriptor, texture_id)} :
       /\ Ops(r.cmds, namespaces) <= MaxOps
       /\ texture_descriptors' = r.texture_descriptors
       /\ images' = r.images
       /\ cmds' = r.cmds
       /\ render' = render
       /\ poisoned' = r.panicked
       /\ last' = [Call("update_texture", NoSource, "", NoFile,
                        Outcome(IF r.panicked THEN "panic" ELSE "ok", NoErr, key,
                                r.images, r.cmds, render, {}, FALSE))
                     EXCEPT !.given = Given(descriptor, texture_id),
                            !.table_changed =
                              (r.texture_descriptors # texture_descriptors)]
       /\ UNCHANGED <<assets_path, bundled_images, namespaces, loaded,
                      holders, tpc, tjob, cpc, cimg, cout>>

\* init_resources(render_api): the backend hands every new api its namespace
InitResources ==
  /\ resources_ok
  /\ Ops(cmds, namespaces + 1) <= MaxOps
  /\ namespaces' = namespaces + 1
  /\ render' = set_render_api(namespaces + 1)
  /\ last' = [NoCall EXCEPT !.op = "init_resources", !.result = "ok"]
  /\ UNCHANGED <<assets_path, bundled_images, images, texture_descriptors,
                 poisoned, cmds, loaded, holders, tpc, tjob, cpc, cimg, cout>>

\* the caller sets the pub field assets_path
SetAssetsPath(root) ==
  /\ resources_ok
  /\ root # assets_path
  /\ assets_path' = root
  /\ last' = [NoCall EXCEPT !.op = "set_assets_path", !.result = "ok"]
  /\ UNCHANGED <<render, bundled_images, images, texture_descriptors, poisoned,
                 cmds, namespaces, loaded, holders, tpc, tjob, cpc, cimg, cout>>

EmptyMap == [x \in {} |-> NoInfo]

Threads == 1..MaxThreads

\* the locals of a call in progress: the source being registered or the
\* texture id, the bytes to upload, the key and the descriptor
Job(source, data, info, texture_id) ==
  [source |-> source, data |-> data, info |-> info, id |-> texture_id]
NoJob == Job(NoSource, <<>>, NoInfo, 0)

\* ImageLoader::new() in a fresh process
InitRegistry ==
  /\ render = None
  /\ assets_path = <<>>
  /\ bundled_images = EmptyMap
  /\ images = EmptyMap
  /\ texture_descriptors = EmptyMap
  /\ poisoned = FALSE
  /\ cmds = <<>>
  /\ namespaces = 0
  /\ last = NoCall
  /\ loaded = {}
  /\ holders = {}
  /\ tpc = [t \in Threads |-> "idle"]
  /\ tjob = [t \in Threads |-> NoJob]

Init ==
  /\ InitRegistry
  /\ cpc = "off"
  /\ cimg = NullImage
  /\ cout = ConvErr("")

Next ==
  \/ \E source \in Sources :
       \E file \in FilesFor(source, DOMAIN images) : GetImage(source, file)
  \/ \E name \in Names, data \in Blobs : LoadImage(name, data)
  \/ \E key \in {images[s].key : s \in DOMAIN images} \cup {StreamKey},
        descriptor \in TextureDescs, texture_id \in TextureIds :
       UpdateTexture(key, descriptor, texture_id)
  \/ InitResources
  \/ \E root \in AssetRoots : SetAssetsPath(root)

Spec == Init /\ [][Next]_vars

----------------------------------------------------------------------------
(* The registry with streamed textures: update_texture with several external *)
(* ids and descriptors, on stream keys and on the handle of a cached image   *)

StreamIds == {1, 2}
StreamDescs ==
  {ImageDescriptor(2, 2, "BGRA8", TRUE, FALSE),
   ImageDescriptor(4, 4, "BGRA8", FALSE, FALSE)}
RgbaBlob == Encoded(DynImage("ImageRgba8", 1, 1, <<200, 100, 50, 128>>))

NextTex ==
  \/ \E key \in {images[s].key : s \in DOMAIN images} \cup {StreamKey},
        descriptor \in StreamDescs, texture_id \in StreamIds :
       UpdateTexture(key, descriptor, texture_id)
  \/ LoadImage("x", RgbaBlob)
  \/ InitResources

SpecTex == Init /\ [][NextTex]_vars

----------------------------------------------------------------------------
(* The registry with path sources only: asset paths with and without a       *)
(* leading separator, under either assets root                               *)

PathSources ==
  {AbsolutePath(p) : p \in AbsPaths}
    \cup {AssetPath(p) : p \in RelPaths \cup {<<"/", "foo.png">>}}

NextPath ==
  \/ \E source \in PathSources :
       \E file \in FilesFor(source, DOMAIN images) : GetImage(source, file)
  \/ InitResources
  \/ \E root \in AssetRoots : SetAssetsPath(root)

SpecPath == Init /\ [][NextPath]_vars

----------------------------------------------------------------------------
(* Threads on the global registry: RES.try_lock().unwrap(), then the call in *)
(* steps while the thread owns the guard                                     *)

\* Mutex::try_lock on RES: Err(WouldBlock) while a guard exists, Err(Poisoned)
\* once a holder has panicked, Ok(guard) otherwise; "Wait" stands for a caller
\* parked until the lock is free, which try_lock never does
try_lock_shared == IF poisoned THEN "Poisoned" ELSE "Ok"

try_lock_blocking ==
  CASE holders # {} -> "Wait"
    [] poisoned -> "Poisoned"
    [] OTHER -> "Ok"

try_lock_unpoisoned == IF holders # {} THEN "WouldBlock" ELSE "Ok"

try_lock ==
  CASE holders # {} -> "WouldBlock"
    [] poisoned -> "Poisoned"
    [] OTHER -> "Ok"

\* what the steps of a thread leave alone
loader_data == <<render, images, texture_descriptors, cmds, namespaces>>
elsewhere == <<assets_path, bundled_images, last, loaded, cpc, cimg, cout>>

\* thread t panics: the unwinding drops its guard, if it owns one, and a guard
\* dropped by a panicking thread poisons the Mutex
Panic(t) ==
  /\ tpc' = [tpc EXCEPT ![t] = "dead"]
  /\ tjob' = [tjob EXCEPT ![t] = NoJob]
  /\ holders' = holders \ {t}
  /\ poisoned' = (poisoned \/ t \in holders)

\* RES.try_lock().unwrap() by thread t, which goes on at pc with the guard
Lock(t, pc) ==
  CASE try_lock = "Ok" ->
         /\ holders' = holders \cup {t}
         /\ tpc' = [tpc EXCEPT ![t] = pc]
         /\ UNCHANGED <<poisoned, tjob>>
    [] try_lock = "Wait" ->
         /\ tpc' = [tpc EXCEPT ![t] = "blocked"]
         /\ UNCHANGED <<holders, poisoned, tjob>>
    [] OTHER -> Panic(t)

\* the step of thread t that goes on at pc with job as its locals
Goto(t, pc, job) ==
  /\ tpc' = [tpc EXCEPT ![t] = pc]
  /\ tjob' = [tjob EXCEPT ![t] = job]
  /\ UNCHANGED <<holders, poisoned>>

\* resources(), also by a thread that already owns a guard
CallResources(t) ==
  /\ tpc[t] \in {"idle", "held"}
  /\ Lock(t, "held")
  /\ UNCHANGED <<loader_data, elsewhere>>

\* init_resources(render_api), up to the guard
CallInitResources(t) ==
  /\ tpc[t] \in {"idle", "held"}
  /\ Ops(cmds, namespaces + 1) <= MaxOps
  /\ Lock(t, "init")
  /\ UNCHANGED <<loader_data, elsewhere>>

\* init_resources: set_render_api under the guard, dropped with the statement
SetRenderApi(t) ==
  /\ tpc[t] = "init"
  /\ namespaces' = namespaces + 1
  /\ render' = set_render_api(namespaces + 1)
  /\ holders' = holders \ {t}
  /\ tpc' = [tpc EXCEPT ![t] = "idle"]
  /\ UNCHANGED <<images, texture_descriptors, cmds, poisoned, tjob, elsewhere>>

\* the caller drops the guard resources() gave it
DropGuard(t) ==
  /\ tpc[t] = "held"
  /\ holders' = holders \ {t}
  /\ tpc' = [tpc EXCEPT ![t] = "idle"]
  /\ UNCHANGED <<loader_data, poisoned, tjob, elsewhere>>

\* get_image through the guard, up to create_image_resource: a hit and an
\* error return at once
BeginGetImage(t, source, file) ==
  /\ tpc[t] = "held"
  /\ Ops(cmds, namespaces) < MaxOps
  /\ LET path == IF source.kind = "AssetPath"
                 THEN push(assets_path, source.path) ELSE source.path
         img == image_open(path, file)
         conv == prepare_image(img.image)
     IN  IF source \in DOMAIN images \/ source.kind = "Bundled"
            \/ ~img.ok \/ ~conv.ok
         THEN UNCHANGED <<holders, poisoned, tpc, tjob>>
         ELSE Goto(t, "add_key",
                   Job(source, conv.data, ImageInfo(NoKey, conv.descriptor), 0))
  /\ UNCHANGED <<loader_data, elsewhere>>

\* load_image through the guard, up to create_image_resource
BeginLoadImage(t, name, data) ==
  /\ tpc[t] = "held"
  /\ Ops(cmds, namespaces) < MaxOps
  /\ LET img == load_from_memory(data)
         conv == prepare_image(img.image)
     IN  IF ~img.ok \/ ~conv.ok
         THEN UNCHANGED <<holders, poisoned, tpc, tjob>>
         ELSE Goto(t, "add_key",
                   Job(Bundled(name), conv.data,
                       ImageInfo(NoKey, conv.descriptor), 0))
  /\ UNCHANGED <<loader_data, elsewhere>>

\* create_image_resource: self.render_api().generate_image_key()
GenerateKey(t) ==
  /\ tpc[t] = "add_key"
  /\ IF render_api_panics
     THEN Panic(t) /\ UNCHANGED render
     ELSE /\ render' = [render EXCEPT !.next_id = @ + 1]
          /\ Goto(t, "add_submit",
                  [tjob[t] EXCEPT !.info.key = generate_image_key(render)])
  /\ UNCHANGED <<images, texture_descriptors, cmds, namespaces, elsewhere>>

\* create_image_resource: update_resources(vec![AddImage])
SubmitAdd(t) ==
  /\ tpc[t] = "add_submit"
  /\ cmds' = Append(cmds, AddImage(tjob[t].info.key, tjob[t].info.descriptor,
                                   tjob[t].data))
  /\ Goto(t, "add_insert", tjob[t])
  /\ UNCHANGED <<render, images, texture_descriptors, namespaces, elsewhere>>

\* put_image, load_image_internal: self.images.insert(source, info)
InsertImage(t) ==
  /\ tpc[t] = "add_insert"
  /\ images' = Insert(images, tjob[t].source, tjob[t].info)
  /\ Goto(t, "held", NoJob)
  /\ UNCHANGED <<render, texture_descriptors, cmds, namespaces, elsewhere>>

\* update_texture through the guard: the UpdateImage is built
BeginUpdateTexture(t, key, descriptor, texture_id) ==
  /\ tpc[t] = "held"
  /\ Ops(cmds, namespaces) < MaxOps
  /\ Goto(t, "upd_submit",
          Job(NoSource, <<>>, ImageInfo(key, descriptor), texture_id))
  /\ UNCHANGED <<loader_data, elsewhere>>

\* update_texture: self.render_api().update_resources(vec![resource])
SubmitUpdate(t) ==
  /\ tpc[t] = "upd_submit"
  /\ IF render_api_panics
     THEN Panic(t) /\ UNCHANGED cmds
     ELSE /\ cmds' = Append(cmds, UpdateImage(tjob[t].info.key,
                                              tjob[t].info.descriptor, tjob[t].id))
          /\ Goto(t, "upd_insert", tjob[t])
  /\ UNCHANGED <<render, images, texture_descriptors, namespaces, elsewhere>>

\* update_texture: self.texture_descriptors.insert(texture_id, descriptor)
InsertDescriptor(t) ==
  /\ tpc[t] = "upd_insert"
  /\ texture_descriptors' =
       Insert(texture_descriptors, tjob[t].id, tjob[t].info.descriptor)
  /\ Goto(t, "held", NoJob)
  /\ UNCHANGED <<render, images, cmds, namespaces, elsewhere>>

NextLock ==
  \E t \in Threads :
    \/ CallResources(t)
    \/ CallInitResources(t)
    \/ SetRenderApi(t)
    \/ DropGuard(t)
    \/ \E source \in {AbsolutePath(p) : p \in AbsPaths}, file \in {NoFile, RgbaBlob} :
         BeginGetImage(t, source, file)
    \/ BeginLoadImage(t, "x", RgbaBlob)
    \/ GenerateKey(t)
    \/ SubmitAdd(t)
    \/ InsertImage(t)
    \/ \E descriptor \in TextureDescs, texture_id \in TextureIds :
         BeginUpdateTexture(t, StreamKey, descriptor, texture_id)
    \/ SubmitUpdate(t)
    \/ InsertDescriptor(t)

SpecLock == Init /\ [][NextLock]_vars

----------------------------------------------------------------------------
(* The pixel converter on its own *)

InitConv ==
  /\ InitRegistry
  /\ cpc = "input"
  /\ cimg \in ConvInputs
  /\ cout = ConvErr("")

Convert ==
  /\ cpc = "input"
  /\ cout' = prepare_image(cimg)
  /\ cpc' = "done"
  /\ UNCHANGED <<registry, cimg>>

NextConv == Convert

SpecConv == InitConv /\ [][NextConv]_vars

----------------------------------------------------------------------------
(* Claims about the pixel converter (under SpecConv) *)

\* premultiplied value of channel c under alpha a
Premul(c, a) == (c * a + 128) \div 255

Converted == cpc = "done"
PixelsOf(image) == 0..(Len(image.raw) \div 4 - 1)

\* C7: premultiplication correctness. For every RGBA pixel (r, g, b, a) the
\* three colour bytes of the converted pixel are (c * a + 128) / 255 of the
\* colour byte at the same offset and its alpha byte is a; a grayscale image
\* keeps its bytes unchanged.
C7_Premultiplication ==
  Converted =>
    /\ cimg.layout = "ImageRgba8" =>
         /\ cout.ok
         /\ Len(cout.data) = Len(cimg.raw)
         /\ \A p \in PixelsOf(cimg) :
              /\ \A c \in 1..3 :
                   cout.data[4 * p + c] = Premul(cimg.raw[4 * p + c], cimg.raw[4 * p + 4])
              /\ cout.data[4 * p + 4] = cimg.raw[4 * p + 4]
    /\ cimg.layout = "ImageLuma8" => cout.ok /\ cout.data = cimg.raw

\* C7 witness: a two-pixel RGBA image, one pixel translucent, has been converted
C7_Witness ==
  /\ Converted
  /\ cimg.layout = "ImageRgba8"
  /\ cimg.raw = <<1, 2, 3, 255, 200, 100, 50, 128>>
  /\ cout.data = <<1, 2, 3, 255, 100, 50, 25, 128>>

\* C8: channel reordering. The upload buffer of an RGBA image holds every
\* pixel as (B, G, R, A): input bytes (r, g, b, a) give (b', g', r', a), so
\* that (200, 100, 50, 128) gives (25, 50, 100, 128).
C8_ChannelReordering ==
  (Converted /\ cimg.layout = "ImageRgba8") =>
    /\ cout.ok
    /\ \A p \in PixelsOf(cimg) :
         LET r == cimg.raw[4 * p + 1]
             g == cimg.raw[4 * p + 2]
             b == cimg.raw[4 * p + 3]
             a == cimg.raw[4 * p + 4]
         IN  SubSeq(cout.data, 4 * p + 1, 4 * p + 4)
               = <<Premul(b, a), Premul(g, a), Premul(r, a), a>>
    /\ cimg.raw = <<200, 100, 50, 128>> => cout.data = <<25, 50, 100, 128>>

AllAlphaOpaque(image) == \A p \in PixelsOf(image) : image.raw[4 * p + 4] = 255

\* C9: opacity detection. The descriptor of an RGBA image is opaque exactly
\* when every alpha byte of the decoded input is 255; the descriptor of a
\* grayscale image is always opaque.
C9_OpacityDetection ==
  Converted =>
    /\ cimg.layout = "ImageRgba8" =>
         cout.ok /\ (cout.descriptor.is_opaque <=> AllAlphaOpaque(cimg))
    /\ cimg.layout = "ImageLuma8" => cout.ok /\ cout.descriptor.is_opaque

\* C9 witness: an RGBA image whose first pixel is opaque and whose second is
\* not has been converted and reported non-opaque
C9_Witness ==
  /\ Converted
  /\ cimg.layout = "ImageRgba8"
  /\ Len(cimg.raw) = 8
  /\ cimg.raw[4] = 255
  /\ cimg.raw[8] < 255
  /\ ~cout.descriptor.is_opaque

----------------------------------------------------------------------------
(* Claims about the registry (under Spec) *)

IsPath(source) == source.kind \in {"AbsolutePath", "AssetPath"}

\* add-image commands of log that carry key
AddsOf(log, key) == {i \in Adds(log) : log[i].key = key}

\* the latest call was get_image(S), right after a get_image(S) that succeeded
SecondGet ==
  last.op = "get_image" /\ last.before.op = "get_image" /\ last.before.result = "ok"

C2_OneInfoPerSource ==
  [][\A S \in DOMAIN images :
       /\ S \in DOMAIN images'
       /\ images'[S].key = images[S].key
       /\ last'.source = S => (~last'.decoded /\ last'.submitted = <<>>)]_vars

\* C2 amended: a cache entry is never removed; the entry of a path source
\* never changes and no call opens, decodes or uploads for it again; the entry
\* of Bundled(name) changes only in a successful load_image(name, ...), which
\* decodes, uploads once and caches the new handle.
C2_OneInfoPerPathSource ==
  [][\A S \in DOMAIN images :
       /\ S \in DOMAIN images'
       /\ IsPath(S) =>
            /\ images'[S] = images[S]
            /\ last'.source = S =>
                 (last'.opened = {} /\ ~last'.decoded /\ last'.submitted = <<>>)
       /\ images'[S] # images[S] =>
            /\ last'.op = "load_image" /\ last'.name = S.name /\ last'.result = "ok"
            /\ images'[S].key = last'.key
            /\ last'.decoded /\ Len(last'.submitted) = 1
       /\ (last'.source = S /\ last'.op # "load_image") =>
            (~last'.decoded /\ last'.submitted = <<>>)]_vars

\* C2 witness: with a path source cached, a second load_image of a name has
\* replaced the entry of that name
C2_Witness ==
  /\ \E S \in DOMAIN images : IsPath(S)
  /\ last.op = "load_image" /\ last.result = "ok" /\ last.hit
  /\ Cardinality(Adds(cmds)) = 3

\* C3: a get_image that returns an error (file cannot be opened, bytes cannot
\* be decoded, layout unsupported, bundled name not registered) leaves the
\* source cache and the texture descriptor table as they were, generates no
\* key and submits no command.
C3_GetImageErrorLeavesRegistry ==
  [][(last'.op = "get_image" /\ last'.result = "err") =>
       /\ images' = images
       /\ texture_descriptors' = texture_descriptors
       /\ bundled_images' = bundled_images
       /\ render' = render
       /\ cmds' = cmds
       /\ last'.keys = 0 /\ last'.submitted = <<>>
       /\ last'.err.context = "Failed to load image from source"
       /\ last'.err.kind \in {"IoError", "ImageError", "ImageFormat unsupported",
                              "BundledImageMissingError"}]_vars

\* C3 witness: with an initialized renderer and a non-empty cache, a get_image
\* of an uncached path source failed in the converter
C3_Witness ==
  /\ last.op = "get_image" /\ last.result = "err"
  /\ last.err.kind = "ImageFormat unsupported"
  /\ render.some
  /\ DOMAIN images # {}

BadData(data) == ~data.decodable \/ ~prepare_image(data.image).ok

\* C4: a load_image(name, bytes) whose bytes do not decode, or decode to a
\* layout other than 8-bit RGBA or 8-bit grayscale, returns an error, creates
\* or replaces no cache entry for Bundled(name) and submits no add-image command.
C4_LoadImageErrorLeavesCache ==
  (last.op = "load_image" /\ BadData(last.data)) =>
    /\ last.result = "err"
    /\ last.err.kind = IF last.data.decodable THEN "ImageFormat unsupported"
                       ELSE "ImageError"
    /\ ~last.cache_changed
    /\ last.hit <=> Bundled(last.name) \in DOMAIN images
    /\ last.keys = 0 /\ last.submitted = <<>>

\* C4 witness: bytes in an unsupported layout were given for a name that is
\* registered
C4_Witness ==
  /\ last.op = "load_image" /\ last.result = "err"
  /\ last.data.decodable
  /\ last.hit

\* C5: get_image(Bundled(x)) fails with the missing-bundled error naming x,
\* opening no file and leaving the cache as it was, exactly when no
\* load_image(x, ...) has succeeded before; after one has, it succeeds.
C5_BundledMissing ==
  (last.op = "get_image" /\ last.source.kind = "Bundled") =>
    /\ (last.source.name \notin loaded) <=>
         /\ last.result = "err"
         /\ last.err.kind = "BundledImageMissingError"
         /\ last.err.name = last.source.name
    /\ (last.source.name \in loaded) <=> last.result = "ok"
    /\ last.opened = {} /\ ~last.decoded
    /\ ~last.cache_changed /\ last.keys = 0 /\ last.submitted = <<>>

\* C5 witness: a lookup of Bundled(x) failed, then load_image(x, ...) succeeded,
\* then the lookup succeeded
C5_Witness ==
  /\ last.op = "get_image" /\ last.source.kind = "Bundled" /\ last.result = "ok"
  /\ last.before.op = "load_image" /\ last.before.result = "ok"
  /\ ~last.before.hit

\* C6: a successful load_image(name, bytes) generates one fresh handle, submits
\* exactly one add-image command and makes Bundled(name) map to the new handle,
\* replacing a mapping already cached; no command ever releases a handle; a
\* following get_image(Bundled(name)) returns the newest handle and submits
\* nothing.
C6_LoadImageReplaces ==
  /\ (last.op = "load_image" /\ last.result = "ok") =>
       /\ last.keys = 1
       /\ Len(last.submitted) = 1
       /\ last.submitted[1].kind = "AddImage"
       /\ last.submitted[1].key = last.key
       /\ Cardinality(AddsOf(cmds, last.key)) = 1
       /\ Bundled(last.name) \in DOMAIN images
       /\ images[Bundled(last.name)].key = last.key
       /\ images[Bundled(last.name)].descriptor = last.submitted[1].descriptor
  /\ \A i \in DOMAIN cmds : cmds[i].kind \in {"AddImage", "UpdateImage"}
  /\ (last.op = "get_image" /\ last.before.op = "load_image"
        /\ last.before.result = "ok") =>
       /\ last.result = "ok"
       /\ last.key = last.before.key
       /\ images[last.source].key = last.key
       /\ last.keys = 0 /\ last.submitted = <<>>

\* C6 witness: a second load_image of a name replaced its mapping and the
\* lookup that followed returned the new handle
C6_Witness ==
  /\ last.op = "get_image" /\ last.result = "ok"
  /\ last.before.op = "load_image" /\ last.before.result = "ok"
  /\ last.before.hit
  /\ Cardinality(Adds(cmds)) = 2

\* the latest call registered an image: a get_image miss or a load_image that
\* succeeded
Registered ==
  /\ last.op \in {"get_image", "load_image"}
  /\ last.result = "ok"
  /\ last.op = "get_image" => ~last.hit

\* C10: handle uniqueness. Every successful registration uses the key the
\* gateway generated in that same call, so the handles of two distinct cache
\* entries differ and no two add-image commands carry the same key.
C10_HandleUniqueness ==
  /\ Registered =>
       /\ last.keys = 1
       /\ last.key = <<render.ns, render.next_id - 1>>
       /\ last.submitted = <<AddImage(last.key, images[last.source].descriptor,
                                      last.submitted[1].data)>>
       /\ images[last.source].key = last.key
  /\ \A S1 \in DOMAIN images, S2 \in DOMAIN images :
       S1 # S2 => images[S1].key # images[S2].key
  /\ \A i \in Adds(cmds), j \in Adds(cmds) : i # j => cmds[i].key # cmds[j].key

\* C10 witness: a second registration, with two entries cached
C10_Witness ==
  /\ Registered
  /\ Cardinality(DOMAIN images) = 2
  /\ Cardinality(Adds(cmds)) = 2

----------------------------------------------------------------------------
(* Claims about the gateway and about update_texture (under Spec) *)

\* the latest call got as far as render_api(): an update_texture, a load_image
\* whose bytes convert, or a get_image miss whose file opens and converts
ReachesRenderer ==
  \/ last.op = "update_texture"
  \/ last.op = "load_image" /\ ~BadData(last.data)
  \/ last.op = "get_image" /\ ~last.hit /\ IsPath(last.source) /\ ~BadData(last.data)

\* C11: uninitialized renderer. While no gateway is configured, a call that
\* reaches the renderer panics, generates no key, submits nothing and leaves
\* the source cache and the texture descriptor table as they were; a panic
\* has no other cause; so before initialization both mappings are empty and
\* the renderer has received nothing.
C11_UninitializedRenderer ==
  /\ ~render.some =>
       /\ images = EmptyMap
       /\ texture_descriptors = EmptyMap
       /\ cmds = <<>>
       /\ ReachesRenderer => last.result = "panic"
  /\ last.result = "panic" =>
       /\ ~render.some /\ ReachesRenderer
       /\ ~last.cache_changed /\ ~last.table_changed
       /\ last.keys = 0 /\ last.submitted = <<>>
       /\ poisoned

\* C11 witness: update_texture was called on a registry that has no gateway
C11_Witness ==
  /\ last.op = "update_texture"
  /\ last.result = "panic"
  /\ ~render.some

\* C12: the gateway is configured exactly once. Once a gateway is installed
\* no step, a further init_resources included, replaces it, and the handles
\* cached so far belong to the gateway in use.
C12_ConfiguredOnce ==
  [][render.some =>
       /\ render'.some
       /\ render'.ns = render.ns
       /\ \A S \in DOMAIN images : images'[S].key[1] = render'.ns]_vars

\* C14: update_texture never changes the source cache. After
\* update_texture(K, d, data) the source -> ImageInfo mapping is the one before
\* the call, also when K is the handle of a cached entry whose descriptor is
\* not d: every cached descriptor is still the one of the add-image command
\* that registered its handle.
C14_UpdateTextureKeepsCache ==
  last.op = "update_texture" =>
    /\ ~last.cache_changed
    /\ \A S \in DOMAIN images :
         /\ AddsOf(cmds, images[S].key) # {}
         /\ \A i \in AddsOf(cmds, images[S].key) :
              cmds[i].descriptor = images[S].descriptor

\* C14 witness: update_texture succeeded with the handle of a cached entry
\* and a descriptor other than the cached one
C14_Witness ==
  /\ last.op = "update_texture"
  /\ last.result = "ok"
  /\ \E S \in DOMAIN images :
       /\ images[S].key = last.key
       /\ images[S].descriptor # last.given.descriptor

\* add-image commands of log that carry the key and the descriptor of info
AddsFor(log, info) ==
  {i \in Adds(log) : log[i].key = info.key /\ log[i].descriptor = info.descriptor}

\* a step that registers a bundled name again
Reregisters ==
  last'.op = "load_image" /\ last'.result = "ok" /\ last'.hit /\ last' # last

\* C18: cache/renderer correspondence. In every reachable state each cache
\* entry has exactly one add-image command with its key and its descriptor, so
\* there are at most as many entries as add-image commands; every step adds as
\* many entries as add-image commands, except the registration of a bundled
\* name that is already cached, which adds a command and no entry.
C18_CacheRendererCorrespondence ==
  /\ [](/\ \A S \in DOMAIN images :
            /\ Cardinality(AddsFor(cmds, images[S])) = 1
            /\ Cardinality(AddsOf(cmds, images[S].key)) = 1
         /\ Cardinality(DOMAIN images) <= Cardinality(Adds(cmds)))
  /\ [][LET entries == Cardinality(DOMAIN images') - Cardinality(DOMAIN images)
            adds == Cardinality(Adds(cmds')) - Cardinality(Adds(cmds))
        IN  IF Reregisters THEN entries = 0 /\ adds = 1
            ELSE entries = adds /\ adds \in {0, 1}]_vars

\* C18 witness: a name and a path are cached, the name registered twice: two
\* entries, three add-image commands
C18_Witness ==
  /\ Cardinality(DOMAIN images) = 2
  /\ Cardinality(Adds(cmds)) = 3
  /\ \E S \in DOMAIN images : IsPath(S)

----------------------------------------------------------------------------
(* Claims about streamed textures (under SpecTex) *)

\* update-image commands of log whose external data carries texture id t
UpdatesOf(log, t) ==
  {i \in DOMAIN log : log[i].kind = "UpdateImage" /\ log[i].external = t}

Latest(S) == CHOOSE i \in S : \A j \in S : j <= i

\* C13: the texture descriptor table. The table holds exactly the texture ids
\* that an update_texture call has carried, each mapped to the descriptor of
\* the most recent such call, and a successful update_texture(K, d, data)
\* submits exactly one update-image command, carrying K, d, the external data
\* and no dirty rectangle.
C13_TextureTable ==
  /\ \A t \in StreamIds \cup DOMAIN texture_descriptors :
       /\ t \in DOMAIN texture_descriptors <=> UpdatesOf(cmds, t) # {}
       /\ t \in DOMAIN texture_descriptors =>
            texture_descriptors[t] = cmds[Latest(UpdatesOf(cmds, t))].descriptor
  /\ (last.op = "update_texture" /\ render.some) =>
       /\ last.result = "ok"
       /\ Len(last.submitted) = 1
       /\ last.submitted[1].kind = "UpdateImage"
       /\ last.submitted[1].key = last.key
       /\ last.submitted[1].descriptor = last.given.descriptor
       /\ last.submitted[1].external = last.given.id
       /\ last.submitted[1].dirty_rect = "None"
       /\ texture_descriptors[last.given.id] = last.given.descriptor

\* C13 witness: texture 1 was updated twice, with two descriptors, texture 2
\* never
C13_Witness ==
  /\ Cardinality(UpdatesOf(cmds, 1)) = 2
  /\ \E i \in UpdatesOf(cmds, 1) : cmds[i].descriptor # texture_descriptors[1]
  /\ 2 \notin DOMAIN texture_descriptors

----------------------------------------------------------------------------
(* Claims about path resolution (under SpecPath) *)

\* root and p written one after the other: /assets and /foo.png give
\* /assets/foo.png
Concat(root, p) == root \o (IF is_absolute(p) /\ root # <<>> THEN Tail(p) ELSE p)

\* C17: asset-path resolution. A get_image miss on AssetPath(p) opens the
\* assets root concatenated with p, whether or not p starts with a separator,
\* and on AbsolutePath(q) it opens q; when the file is absent the call returns
\* an error and leaves the cache unchanged.
C17_AssetPathResolution ==
  (last.op = "get_image" /\ ~last.hit) =>
    /\ last.source.kind = "AssetPath" =>
         last.opened = {Concat(assets_path, last.source.path)}
    /\ last.source.kind = "AbsolutePath" => last.opened = {last.source.path}
    /\ ~last.data.exists => (last.result = "err" /\ ~last.cache_changed)

----------------------------------------------------------------------------
(* Claims about the range of premultiplied bytes (under SpecConv) *)

\* C20: premultiplied range. For every channel byte c and alpha byte a of an
\* RGBA input the byte written is (c * a + 128) / 255 itself, not a truncation
\* of it: the value is at most c and at most a, hence a byte; it is c when a is
\* 255 and 0 when a is 0.
C20_PremultipliedRange ==
  (Converted /\ cimg.layout = "ImageRgba8") =>
    \A p \in PixelsOf(cimg) :
      \A c \in 1..3 :
        LET v == cimg.raw[4 * p + c]
            a == cimg.raw[4 * p + 4]
            out == cout.data[4 * p + c]
        IN  /\ Premul(v, a) \in Byte
            /\ out = Premul(v, a)
            /\ out <= v /\ out <= a
            /\ a = 255 => out = v
            /\ a = 0 => out = 0

\* C20 witness: the largest channel under the largest alpha has been converted
C20_Witness ==
  /\ Converted
  /\ cimg.raw = <<255, 255, 255, 255>>
  /\ cout.data = <<255, 255, 255, 255>>

----------------------------------------------------------------------------
(* Claims about the lock (under SpecLock) *)

\* the threads inside get_image, load_image, update_texture or init_resources
InCall ==
  {t \in Threads : tpc[t] \in {"init", "add_key", "add_submit", "add_insert",
                               "upd_submit", "upd_insert"}}

\* C15: mutual exclusion. In every reachable state at most one thread owns
\* the registry lock, and a thread inside get_image, load_image,
\* update_texture or init_resources owns it: no two calls overlap, so the key
\* generation, submission and insertion steps of one call are never
\* interleaved with those of another.
C15_MutualExclusion ==
  /\ Cardinality(holders) <= 1
  /\ \A t \in Threads : (tpc[t] = "held" \/ t \in InCall) => t \in holders
  /\ Cardinality(InCall) <= 1

\* C15 witness: one thread is between the submission and the insertion of a
\* registration, another has called in the meantime
C15_Witness ==
  \E t \in Threads, u \in Threads :
    /\ tpc[t] = "add_insert"
    /\ tpc[u] = "dead"
    /\ ~poisoned

\* C16: lock acquisition never waits. No thread is ever parked on the lock; a
\* thread that calls resources() or init_resources() while the lock is owned,
\* by another thread or by itself, panics in that very step and the lock
\* stays with its owner; when the caller was the owner, the lock is released
\* poisoned.
C16_NeverWaits ==
  /\ [](\A t \in Threads : tpc[t] # "blocked")
  /\ [][\A t \in Threads :
          /\ (tpc[t] = "idle" /\ tpc'[t] # "idle" /\ holders # {}) =>
               (tpc'[t] = "dead" /\ holders' = holders /\ poisoned' = poisoned)
          /\ tpc[t] = "held" =>
               /\ tpc'[t] # "init"
               /\ tpc'[t] = "dead" => (poisoned' /\ holders' = {})]_vars

\* C16 witness: a thread has called while another owned the lock, which is
\* still with its owner on an initialized registry
C16_Witness ==
  \E t \in Threads, u \in Threads :
    /\ tpc[t] = "held"
    /\ tpc[u] = "dead"
    /\ ~poisoned
    /\ render.some

\* C19: lock poisoning. A thread that panics while it owns the lock poisons
\* it; once the lock is poisoned it stays poisoned, nobody owns it, every
\* thread that calls resources() or init_resources() panics, and the gateway,
\* the cache, the descriptor table and the renderer's log never change again.
C19_PoisonedForEver ==
  [][/\ \A t \in holders : tpc'[t] = "dead" => poisoned'
     /\ poisoned =>
          /\ poisoned'
          /\ holders = {} /\ holders' = {}
          /\ UNCHANGED loader_data
          /\ \A t \in Threads : tpc'[t] \in {tpc[t], "dead"}]_vars

\* C19 witness: the lock was poisoned before initialization and every thread
\* has panicked
C19_Witness ==
  /\ poisoned
  /\ ~render.some
  /\ \A t \in Threads : tpc[t] = "dead"

====
